---- MODULE Spec2Model ----
(***************************************************************************)
(* Cart / order price reconciliation and order lifecycle of the            *)
(* e-commerce dashboard: the cart controller (cart/cartController.js),     *)
(* the order controller (order/orderController.js), the cart routes, the   *)
(* cart page of the admin front end (src/pages/cart/cart.jsx) and its      *)
(* orders page.                                                            *)
(*                                                                         *)
(* Numbers: prices and quantities are integers.  A field that is absent    *)
(* (JavaScript undefined) is the value Undefined; NaN is the value NaN.    *)
(***************************************************************************)
EXTENDS Integers, Sequences, FiniteSets, TLC

VARIABLES
    products,      \* product store: product id -> product document
    carts,         \* cart store: cart id -> cart document
    orders,        \* order store: order id -> order document (or NoOrder)
    pendingSaves,  \* cart.save() calls started and not yet settled
    resp,          \* the response of the last request
    cartData,      \* cart page: the data of the ["cart"] query
    editingCart,   \* cart page: the cart opened in the edit dialog
    view,          \* cart page: the numbers last rendered
    updatingOrderId,   \* orders page: the state of that name
    statusUpdates      \* orders page: the status mutations in flight

storeVars == <<products, carts, orders, pendingSaves>>
ordersPageVars == <<updatingOrderId, statusUpdates>>
pageVars  == <<cartData, editingCart, view, updatingOrderId, statusUpdates>>
vars      == <<products, carts, orders, pendingSaves, resp, cartData, editingCart, view,
               updatingOrderId, statusUpdates>>

----------------------------------------------------------------------------
(* JavaScript values *)

\* an absent field / undefined
Undefined == -1

\* Number(undefined), undefined * x
NaN == -2

\* truthiness of a number-or-undefined value
Truthy(x) == x # Undefined /\ x # NaN /\ x # 0

\* a || b
OrElse(a, b) == IF Truthy(a) THEN a ELSE b

\* a > 0 (false for undefined and NaN)
Positive(x) == x # Undefined /\ x # NaN /\ x > 0

NoResp == [op |-> "none"]

----------------------------------------------------------------------------
(* Variant lookup *)

NotFound == [found |-> FALSE]

\* Array.prototype.find((opt) => opt.sku === sku): the index of the first
\* option from position j on whose sku equals the target, 0 when there is none
RECURSIVE FindFrom(_, _, _)
FindFrom(options, sku, j) ==
    IF j > Len(options) THEN 0
    ELSE IF options[j].sku = sku THEN j
    ELSE FindFrom(options, sku, j + 1)

\* the mutant of ScanVariants: the scan does not stop at the first group that
\* matches, so the last matching group wins
RECURSIVE ScanVariantsNoBreak(_, _, _)
ScanVariantsNoBreak(variants, sku, i) ==
    IF i > Len(variants) THEN NotFound
    ELSE LET rest == ScanVariantsNoBreak(variants, sku, i + 1)
             j == FindFrom(variants[i].options, sku, 1)
         IN  IF rest.found THEN rest
             ELSE IF j # 0
                  THEN [found |-> TRUE, variant |-> variants[i].name,
                        option |-> variants[i].options[j]]
                  ELSE NotFound

\* for (const variant of product?.variants || []) { matchedOption = find; if (matchedOption) break }
\* from group i on: the matched option and the group it is in
RECURSIVE ScanVariants(_, _, _)
ScanVariants(variants, sku, i) ==
    IF i > Len(variants) THEN NotFound
    ELSE LET j == FindFrom(variants[i].options, sku, 1)
         IN  IF j # 0
             THEN [found |-> TRUE, variant |-> variants[i].name,
                   option |-> variants[i].options[j]]
             ELSE ScanVariants(variants, sku, i + 1)

\* product?.variants || []: a product populated without its variants has none
VariantsOf(product) ==
    IF "variants" \in DOMAIN product THEN product.variants ELSE <<>>

\* the lookup of a sku in a populated product
\* a lookup that takes the product's first option whatever its sku
FindOptionAnySku(product, sku) ==
    IF VariantsOf(product) # <<>> /\ VariantsOf(product)[1].options # <<>>
    THEN [found   |-> TRUE,
          variant |-> VariantsOf(product)[1].name,
          option  |-> VariantsOf(product)[1].options[1]]
    ELSE NotFound

FindOption(product, sku) == ScanVariants(VariantsOf(product), sku, 1)

----------------------------------------------------------------------------
(* Sequences *)

RECURSIVE SumSeq(_)
SumSeq(s) == IF s = <<>> THEN 0 ELSE Head(s) + SumSeq(Tail(s))


----------------------------------------------------------------------------
(* The stores when they hold nothing, and the page before any query *)

NoCarts    == <<>>
NoOrders   == <<>>
NoPage     == [isAdmin |-> FALSE, loaded |-> FALSE]
NoEditing  == [open |-> FALSE]
NoView     == [rendered |-> "none"]

\* useState(null) of updatingOrderId
NoOrderId  == "null"

----------------------------------------------------------------------------
(* Specification SpecResolve: the variant lookup on every small product *)

\* groups per product and options per group of the products drawn
MaxVariants == 2
MaxOptions  == 2

SeqsUpTo(S, n) == UNION {[1..k -> S] : k \in 0..n}

ResolveSkus == {"A1", "A2"}

\* the skus a lookup asks for: the two above and one no product has
TargetSkus == ResolveSkus \cup {"A9"}

\* a product whose groups carry the given skus; every option has a price of
\* its own (10 * group + position) so that two options with one sku differ
ProductOfShape(shape) ==
    [name |-> "p1",
     variants |->
        [i \in 1..Len(shape) |->
            [name |-> i,
             options |->
                [j \in 1..Len(shape[i]) |->
                    [sku |-> shape[i][j],
                     price |-> 10 * i + j,
                     priceAfterDiscount |-> Undefined]]]]]

ResolveProducts ==
    {ProductOfShape(shape) : shape \in SeqsUpTo(SeqsUpTo(ResolveSkus, MaxOptions), MaxVariants)}

ResolveInit ==
    /\ products \in {[p \in {"p1"} |-> prod] : prod \in ResolveProducts}
    /\ carts = NoCarts
    /\ orders = NoOrders
    /\ pendingSaves = {}
    /\ resp = NoResp
    /\ cartData = NoPage
    /\ editingCart = NoEditing
    /\ view = NoView
    /\ updatingOrderId = NoOrderId
    /\ statusUpdates = {}

\* one lookup, as each of its four callers runs it
Lookup(sku) ==
    /\ resp' = [op |-> "findOption", sku |-> sku,
                matched |-> FindOption(products["p1"], sku)]
    /\ UNCHANGED <<storeVars, pageVars>>

ResolveNext == \E sku \in TargetSkus : Lookup(sku)

SpecResolve == ResolveInit /\ [][ResolveNext]_vars

\* the positions <<group, option>> of a product's options with the sku
MatchesOf(product, sku) ==
    {m \in (1..Len(product.variants)) \X (1..MaxOptions + 1) :
        /\ m[2] <= Len(product.variants[m[1]].options)
        /\ product.variants[m[1]].options[m[2]].sku = sku}

Before(m, n) == m[1] < n[1] \/ (m[1] = n[1] /\ m[2] <= n[2])

\* C3: the lookup yields the first option, in group-then-option order, whose
\* sku equals the target (also when several options carry that sku), and no
\* option when none matches.
C3_FirstMatch ==
    resp.op = "findOption" =>
        LET p == products["p1"]
            ms == MatchesOf(p, resp.sku)
        IN  IF ms = {}
            THEN resp.matched = NotFound
            ELSE \E m \in ms :
                    /\ \A n \in ms : Before(m, n)
                    /\ resp.matched.found
                    /\ resp.matched.option = p.variants[m[1]].options[m[2]]
                    /\ resp.matched.variant = p.variants[m[1]].name

\* C3 witness: a lookup of a sku that options of two groups carry
C3_Witness ==
    /\ resp.op = "findOption"
    /\ resp.matched.found
    /\ \E m, n \in MatchesOf(products["p1"], resp.sku) : m[1] # n[1]

----------------------------------------------------------------------------
(* Cart enumeration: getAllCartsData and getAllCarts *)

Users == {"u1", "u2"}
Roles == {"admin", "user"}

\* the cart ids, newest first: Cart.find().sort({ createdAt: -1 })
CartOrder == <<"c2", "c1">>
CartIds   == {"c1", "c2"}
OwnerOf   == [c \in CartIds |-> IF c = "c1" THEN "u1" ELSE "u2"]

\* Cart.find(): the stored carts, newest first
RECURSIVE CartsIn(_)
CartsIn(ids) ==
    IF ids = <<>> THEN <<>>
    ELSE (IF Head(ids) \in DOMAIN carts THEN <<carts[Head(ids)]>> ELSE <<>>)
         \o CartsIn(Tail(ids))

FindCarts == CartsIn(CartOrder)

\* array.filter((cart) => cart.user._id === userId) and the like: the
\* documents of s whose user is userId
RECURSIVE OfUser(_, _)
OfUser(s, userId) ==
    IF s = <<>> THEN <<>>
    ELSE (IF Head(s).user = userId THEN <<Head(s)>> ELSE <<>>) \o OfUser(Tail(s), userId)

\* .populate("items.product", fields): the product with the selected fields
Populate(productId, fields) ==
    [f \in fields \cap DOMAIN products[productId] |-> products[productId][f]]

\* the fields getAllCartsData and fixCartPrices populate, and those getAllCarts does
DataFields == {"name", "images", "variants"}
ListFields == {"name"}

\* the mutant of ReconciledPrice: the option's price replaces a positive
\* stored price as well
ReconciledPriceAlways(item, matched) ==
    IF matched.found
    THEN OrElse(OrElse(matched.option.priceAfterDiscount, matched.option.price), 0)
    ELSE OrElse(item.price, 0)

\* the mutant of ReconciledPrice: the option's base price is preferred to its
\* discounted price
ReconciledPriceBaseFirst(item, matched) ==
    IF OrElse(item.price, 0) = 0 /\ matched.found
    THEN OrElse(OrElse(matched.option.price, matched.option.priceAfterDiscount), 0)
    ELSE OrElse(item.price, 0)

\* the reconciled price without the || 0 of the first line: an absent price
\* stays absent when nothing matches
ReconciledPriceNoDefault(item, matched) ==
    IF OrElse(item.price, 0) = 0 /\ matched.found
    THEN OrElse(OrElse(matched.option.priceAfterDiscount, matched.option.price), 0)
    ELSE item.price

\* let price = item.price || 0;
\* if (price === 0 && matchedOption) price = priceAfterDiscount || price || 0
ReconciledPrice(item, matched) ==
    IF OrElse(item.price, 0) = 0 /\ matched.found
    THEN OrElse(OrElse(matched.option.priceAfterDiscount, matched.option.price), 0)
    ELSE OrElse(item.price, 0)

\* the item's part in needsUpdate: price === 0 && matchedOption, then price > 0
SetsNeedsUpdate(item, matched) ==
    /\ OrElse(item.price, 0) = 0
    /\ matched.found
    /\ Positive(ReconciledPrice(item, matched))

\* the mutant of EnrichItem: the item's totalPrice ignores the quantity
EnrichItemUnitTotal(item, fields) ==
    LET matched == FindOption(Populate(item.product, fields), item.sku)
        price   == ReconciledPrice(item, matched)
    IN  [productId  |-> item.product,
         sku        |-> item.sku,
         quantity   |-> item.quantity,
         price      |-> price,
         totalPrice |-> price,
         variant    |-> IF matched.found THEN matched.variant ELSE "none"]

\* enrichedItems.push({...}) for one item, the product populated with `fields`
EnrichItem(item, fields) ==
    LET matched == FindOption(Populate(item.product, fields), item.sku)
        price   == ReconciledPrice(item, matched)
    IN  [productId  |-> item.product,
         sku        |-> item.sku,
         quantity   |-> item.quantity,
         price      |-> price,
         totalPrice |-> price * item.quantity,
         variant    |-> IF matched.found THEN matched.variant ELSE "none"]

\* needsUpdate after the loop over cart.items
NeedsUpdate(cart, fields) ==
    \E k \in 1..Len(cart.items) :
        SetsNeedsUpdate(cart.items[k],
                        FindOption(Populate(cart.items[k].product, fields), cart.items[k].sku))

\* cart.items.forEach: item.price = enrichedItem.price
\* if (enrichedItem && enrichedItem.price > 0 && item.price === 0)
WriteBackItems(items, enriched) ==
    [k \in 1..Len(items) |->
        IF Positive(enriched[k].price) /\ items[k].price = 0
        THEN [items[k] EXCEPT !.price = enriched[k].price]
        ELSE items[k]]

\* one cart of carts.map((cart) => ...): the localized cart with enriched
\* items and totals; needsUpdate is the callback's local of that name
CartWithTotals(cart, fields) ==
    LET enriched == [k \in 1..Len(cart.items) |-> EnrichItem(cart.items[k], fields)]
    IN  [id          |-> cart.id,
         user        |-> cart.user,
         discount    |-> cart.discount,
         items       |-> enriched,
         totalPrice  |-> SumSeq([k \in 1..Len(enriched) |-> enriched[k].totalPrice]),
         totalItems  |-> SumSeq([k \in 1..Len(cart.items) |-> cart.items[k].quantity]),
         needsUpdate |-> NeedsUpdate(cart, fields)]

\* the cart.save() calls the map starts: one per cart with needsUpdate, carrying
\* the document as it was read and the document with the corrected prices
WriteBacks(found, fields) ==
    {[cart |-> found[k].id,
      read |-> found[k],
      doc  |-> [found[k] EXCEPT
                  !.items = WriteBackItems(found[k].items,
                                           CartWithTotals(found[k], fields).items)]] :
        k \in {i \in 1..Len(found) : NeedsUpdate(found[i], fields)}}

\* summary: totalCarts, totalActiveCarts, totalItems
SummaryOf(found) ==
    [totalCarts       |-> Len(found),
     totalActiveCarts |-> Cardinality({k \in 1..Len(found) : Len(found[k].items) > 0}),
     totalItems       |-> SumSeq([k \in 1..Len(found) |->
                             SumSeq([i \in 1..Len(found[k].items) |-> found[k].items[i].quantity])])]

\* getAllCartsData(req): the carts with totals and the summary
AllCartsData(found) ==
    [carts   |-> [k \in 1..Len(found) |-> CartWithTotals(found[k], DataFields)],
     summary |-> SummaryOf(found)]

\* a refusal that carries the carts all the same
ForbiddenWithCarts(op) == [op |-> op, code |-> 403, carts |-> FindCarts]

Forbidden(op) == [op |-> op, code |-> 403]

\* an exact quotient: totalValue / carts.length
Ratio(n, d) == [num |-> n, den |-> d]

\* the average without the test of the length
AverageUnguarded(total, n) == Ratio(total, n)

\* carts.length > 0 ? totalValue / carts.length : 0
Average(total, n) == IF n > 0 THEN Ratio(total, n) ELSE Ratio(0, 1)

\* array.sort((a, b) => b.totalPrice - a.totalPrice): insertion of x into a
\* sequence sorted by descending totalPrice, after its equals (the sort is stable)
RECURSIVE InsertDesc(_, _)
InsertDesc(x, s) ==
    IF s = <<>> THEN <<x>>
    ELSE IF Head(s).totalPrice >= x.totalPrice
         THEN <<Head(s)>> \o InsertDesc(x, Tail(s))
         ELSE <<x>> \o s

RECURSIVE SortDesc(_)
SortDesc(s) ==
    IF s = <<>> THEN <<>>
    ELSE InsertDesc(s[Len(s)], SortDesc(SubSeq(s, 1, Len(s) - 1)))

\* array.slice(0, n)
Slice(s, n) == SubSeq(s, 1, IF Len(s) < n THEN Len(s) ELSE n)

\* getAllCarts: the admin listing; products are populated with their name
\* only. The handler's response and the saves it starts
GetAllCartsHandler(role) ==
    IF role # "admin"
    THEN /\ resp' = Forbidden("getAllCarts")
         /\ UNCHANGED pendingSaves
    ELSE \E found \in {FindCarts} :
             /\ resp' = [op      |-> "getAllCarts",
                         code    |-> 200,
                         read    |-> found,
                         results |-> Len(found),
                         carts   |-> [k \in 1..Len(found) |->
                                         CartWithTotals(found[k], ListFields)],
                         summary |-> SummaryOf(found)]
             /\ pendingSaves' = pendingSaves \cup WriteBacks(found, ListFields)

\* GET /api/cart/admin sent by a client other than the cart page
GetAllCarts(role) ==
    /\ GetAllCartsHandler(role)
    /\ UNCHANGED <<products, carts, orders, pageVars>>

\* getCartsSummary: getAllCartsData and the statistics over its carts
GetCartsSummary(role) ==
    /\ IF role # "admin"
       THEN /\ resp' = Forbidden("getCartsSummary")
            /\ UNCHANGED pendingSaves
       ELSE \E found \in {FindCarts} : \E data \in {AllCartsData(found)} :
            \E totalValue \in {SumSeq([k \in 1..Len(data.carts) |-> data.carts[k].totalPrice])} :
                /\ resp' = [op      |-> "getCartsSummary",
                            code    |-> 200,
                            read    |-> found,
                            carts   |-> data.carts,
                            summary |-> [totalCarts       |-> Len(data.carts),
                                         totalActiveCarts |-> data.summary.totalActiveCarts,
                                         totalItems       |-> data.summary.totalItems,
                                         totalValue       |-> totalValue,
                                         averageCartValue |->
                                            Average(totalValue, Len(data.carts))],
                            recentCarts |-> Slice(data.carts, 5),
                            topCarts    |-> Slice(SortDesc(data.carts), 3)]
                /\ pendingSaves' = pendingSaves \cup WriteBacks(found, DataFields)
    /\ UNCHANGED <<products, carts, orders, pageVars>>

\* getCartsByUser: getAllCartsData filtered to one user's carts
GetCartsByUser(role, userId) ==
    /\ IF role # "admin"
       THEN /\ resp' = Forbidden("getCartsByUser")
            /\ UNCHANGED pendingSaves
       ELSE \E found \in {FindCarts} : \E data \in {AllCartsData(found)} :
            \E mine \in {OfUser(data.carts, userId)} :
            \E userTotalValue \in {SumSeq([k \in 1..Len(mine) |-> mine[k].totalPrice])} :
                /\ resp' = [op    |-> "getCartsByUser",
                            code  |-> 200,
                            read  |-> OfUser(found, userId),
                            user  |-> IF mine # <<>> THEN mine[1].user ELSE "null",
                            carts |-> mine,
                            statistics |->
                                [totalCarts |-> Len(mine),
                                 totalValue |-> userTotalValue,
                                 totalItems |-> SumSeq([k \in 1..Len(mine) |-> mine[k].totalItems]),
                                 averageCartValue |->
                                    Average(userTotalValue, Len(mine))]]
                /\ pendingSaves' = pendingSaves \cup WriteBacks(found, DataFields)
    /\ UNCHANGED <<products, carts, orders, pageVars>>

\* the prices a write-back assigned (item.price = enrichedItem.price), set in
\* the cart as it is stored now at the positions it still has
PricesWritten(s, stored) ==
    [stored EXCEPT !.items =
        [k \in 1..Len(stored.items) |->
            IF k <= Len(s.doc.items) /\ s.doc.items[k].price # s.read.items[k].price
            THEN [stored.items[k] EXCEPT !.price = s.doc.items[k].price]
            ELSE stored.items[k]]]

\* the stores cart.save() can leave: the cart is the whole document the
\* request holds, or the stored document with the assigned prices only. Which
\* of the two depends on the Cart model and its library, so both are kept
SaveOutcomes(s) ==
    {[carts EXCEPT ![s.cart] = after] : after \in {s.doc, PricesWritten(s, carts[s.cart])}}

\* a save that is refused when the cart was written since the request read it
SaveSucceedsVersioned(s) ==
    /\ s \in pendingSaves
    /\ pendingSaves' = pendingSaves \ {s}
    /\ carts' \in (IF s.cart \in DOMAIN carts /\ carts[s.cart] = s.read
                   THEN SaveOutcomes(s) ELSE {carts})
    /\ UNCHANGED <<products, orders, resp, pageVars>>

\* cart.save() of a write-back resolves: the cart is stored, whatever was
\* written to it since the request read it; a cart deleted meanwhile stays
\* deleted
SaveSucceeds(s) ==
    /\ s \in pendingSaves
    /\ pendingSaves' = pendingSaves \ {s}
    /\ carts' \in (IF s.cart \in DOMAIN carts THEN SaveOutcomes(s) ELSE {carts})
    /\ UNCHANGED <<products, orders, resp, pageVars>>

\* cart.totalPrice || 0 of a stored cart: the documents of the store carry no
\* totalPrice of their own
StoredTotal(cart) == OrElse(IF "totalPrice" \in DOMAIN cart THEN cart.totalPrice ELSE Undefined, 0)

\* getCartAnalytics without a date range: counts, the stored totals and the
\* revenue (item.price || 0) * quantity per product name
GetCartAnalytics(role) ==
    /\ IF role # "admin"
       THEN resp' = Forbidden("getCartAnalytics")
       ELSE \E found \in {FindCarts} :
            \E totalValue \in {SumSeq([k \in 1..Len(found) |-> StoredTotal(found[k])])} :
               resp' = [op   |-> "getCartAnalytics",
                        code |-> 200,
                        read |-> found,
                        totalCarts |-> Len(found),
                        analytics  |->
                           [totalCarts |-> Len(found),
                            totalItems |-> SumSeq([k \in 1..Len(found) |->
                               SumSeq([i \in 1..Len(found[k].items) |->
                                          found[k].items[i].quantity])]),
                            totalValue |-> totalValue,
                            averageCartValue |-> Average(totalValue, Len(found)),
                            topProducts |->
                               [p \in UNION {{Populate(found[k].items[i].product, ListFields).name :
                                                 i \in 1..Len(found[k].items)} :
                                              k \in 1..Len(found)} |->
                                  [quantity |-> SumSeq([k \in 1..Len(found) |->
                                       SumSeq([i \in 1..Len(found[k].items) |->
                                          IF Populate(found[k].items[i].product, ListFields).name = p
                                          THEN found[k].items[i].quantity ELSE 0])]),
                                   revenue  |-> SumSeq([k \in 1..Len(found) |->
                                       SumSeq([i \in 1..Len(found[k].items) |->
                                          IF Populate(found[k].items[i].product, ListFields).name = p
                                          THEN OrElse(found[k].items[i].price, 0)
                                                  * found[k].items[i].quantity
                                          ELSE 0])])]]]]
    /\ UNCHANGED <<products, carts, orders, pendingSaves, pageVars>>

\* deleteCartById: Cart.findByIdAndDelete(cartId)
DeleteCartById(cartId) ==
    /\ IF cartId \notin DOMAIN carts
       THEN /\ resp' = [op |-> "deleteCartById", code |-> 404]
            /\ UNCHANGED carts
       ELSE /\ carts' = [c \in DOMAIN carts \ {cartId} |-> carts[c]]
            /\ resp' = [op |-> "deleteCartById", code |-> 204]
    /\ UNCHANGED <<products, orders, pendingSaves, pageVars>>

\* findByIdAndUpdate(cartId, req.body, { new: true }): the fields of the body
\* replace those of the document; no validator runs
Updated(doc, body) ==
    [f \in DOMAIN doc |-> IF f \in DOMAIN body THEN body[f] ELSE doc[f]]

\* the handler of updateCartById: its effect on the carts and its response
UpdateCartByIdHandler(cartId, body) ==
    IF cartId \notin DOMAIN carts
    THEN /\ resp' = [op |-> "updateCartById", code |-> 404]
         /\ UNCHANGED carts
    ELSE /\ carts' = [carts EXCEPT ![cartId] = Updated(carts[cartId], body)]
         /\ resp' = [op |-> "updateCartById", code |-> 200,
                     data |-> Updated(carts[cartId], body)]

\* PATCH /api/cart/admin/:cartId sent by a client other than the cart page
UpdateCartById(cartId, body) ==
    /\ UpdateCartByIdHandler(cartId, body)
    /\ UNCHANGED <<products, orders, pendingSaves, pageVars>>

\* a rejected write-back that reaches the client as an error
SaveFailsSurfaced(s) ==
    /\ s \in pendingSaves
    /\ pendingSaves' = pendingSaves \ {s}
    /\ resp' = [op |-> resp.op, code |-> 500]
    /\ UNCHANGED <<products, carts, orders, pageVars>>

\* cart.save() of a write-back rejects: .catch logs the error, nothing else
SaveFails(s) ==
    /\ s \in pendingSaves
    /\ pendingSaves' = pendingSaves \ {s}
    /\ UNCHANGED <<products, carts, orders, resp, pageVars>>

----------------------------------------------------------------------------
(* fixCartPrices *)

\* a loop body that prices the items stored at 0 only, not those without a price
FixItemZeroOnly(item) ==
    LET matched  == FindOption(Populate(item.product, DataFields), item.sku)
        newPrice == IF matched.found
                    THEN OrElse(OrElse(matched.option.priceAfterDiscount,
                                       matched.option.price), 0)
                    ELSE 0
    IN  IF item.price = 0 /\ matched.found /\ Positive(newPrice)
        THEN [item EXCEPT !.price = newPrice]
        ELSE item

\* the loop body for one item: a missing price is set from the matched option
FixItem(item) ==
    LET matched  == FindOption(Populate(item.product, DataFields), item.sku)
        newPrice == IF matched.found
                    THEN OrElse(OrElse(matched.option.priceAfterDiscount,
                                       matched.option.price), 0)
                    ELSE 0
    IN  IF (item.price = 0 \/ ~Truthy(item.price)) /\ matched.found /\ Positive(newPrice)
        THEN [item EXCEPT !.price = newPrice]
        ELSE item

FixedItems(cart) == [k \in 1..Len(cart.items) |-> FixItem(cart.items[k])]

\* the positions of a cart's items whose sku resolves to an option with a
\* positive price, whatever price they store
FixedPositionsAnyPrice(cart) ==
    {k \in 1..Len(cart.items) : FixItem([cart.items[k] EXCEPT !.price = 0]).price # 0}

\* the positions of the items the loop changes in a cart
FixedPositions(cart) == {k \in 1..Len(cart.items) : FixItem(cart.items[k]) # cart.items[k]}

\* the carts with cartNeedsUpdate, in the order of the loop
RECURSIVE NeedingFix(_)
NeedingFix(s) ==
    IF s = <<>> THEN <<>>
    ELSE (IF FixedPositions(Head(s)) # {} THEN <<Head(s)>> ELSE <<>>) \o NeedingFix(Tail(s))

\* fixCartPrices: every cart with a changed item is saved, in order; the save
\* of the cart at position failAt of the carts to save (0: none) rejects and
\* ends the request with the carts before it saved
FixCartPrices(role, failAt) ==
    /\ IF role # "admin"
       THEN /\ failAt = 0
            /\ resp' = Forbidden("fixCartPrices")
            /\ UNCHANGED carts
       ELSE \E found \in {FindCarts} : \E toSave \in {NeedingFix(found)} :
            \E saved \in {IF failAt = 0 THEN toSave ELSE Slice(toSave, failAt - 1)} :
                /\ failAt <= Len(toSave)
                /\ carts' = [c \in DOMAIN carts |->
                               IF \E k \in 1..Len(saved) : saved[k].id = c
                               THEN [carts[c] EXCEPT !.items = FixedItems(carts[c])]
                               ELSE carts[c]]
                /\ resp' = IF failAt = 0
                           THEN [op   |-> "fixCartPrices",
                                 code |-> 200,
                                 read |-> found,
                                 saved |-> [k \in 1..Len(saved) |->
                                              [saved[k] EXCEPT !.items = FixedItems(saved[k])]],
                                 updatedCarts |-> Len(toSave),
                                 updatedItems |-> SumSeq([k \in 1..Len(found) |->
                                                    Cardinality(FixedPositions(found[k]))])]
                           ELSE [op |-> "fixCartPrices", code |-> 500, read |-> found]
    /\ UNCHANGED <<products, orders, pendingSaves, pageVars>>

----------------------------------------------------------------------------
(* Specification SpecCart: the cart endpoints over every small cart store *)

\* items over all carts of the store drawn
MaxItems == 2

Quantities   == {1, 2}
StoredPrices == {Undefined, 0, 30}

\* the product of the carts: one option with a discounted price, one without,
\* one whose discounted price is 0, one without any positive price
Catalog ==
    [p \in {"p1"} |->
        [name |-> "p1",
         images |-> <<>>,
         variants |->
            << [name |-> "Color",
                options |-> << [sku |-> "A1", price |-> 60, priceAfterDiscount |-> 50] >>],
               [name |-> "Storage",
                options |-> << [sku |-> "B1", price |-> 40, priceAfterDiscount |-> Undefined],
                               [sku |-> "B2", price |-> 40, priceAfterDiscount |-> 0],
                               [sku |-> "Z0", price |-> 0, priceAfterDiscount |-> Undefined] >>] >>]]

\* the skus of cart items: those of the catalog and A2, which no option carries
ItemSkus == {"A1", "B1", "B2", "Z0", "A2"}

CartItems == [product : {"p1"}, sku : ItemSkus, quantity : Quantities, price : StoredPrices]

CartDoc(id, items, discount) ==
    [id |-> id, user |-> OwnerOf[id], items |-> items, discount |-> discount]

\* the stores of two carts holding at most n items together
CartStores(n) ==
    UNION {{[c \in CartIds |-> CartDoc(c, IF c = "c1" THEN a ELSE b, 0)] :
                a \in [1..ij[1] -> CartItems], b \in [1..ij[2] -> CartItems]} :
            ij \in {p \in (0..n) \X (0..n) : p[1] + p[2] <= n}}

CartInit ==
    /\ products = Catalog
    /\ carts \in CartStores(MaxItems)
    /\ orders = NoOrders
    /\ pendingSaves = {}
    /\ resp = NoResp
    /\ cartData = NoPage
    /\ editingCart = NoEditing
    /\ view = NoView
    /\ updatingOrderId = NoOrderId
    /\ statusUpdates = {}

CartNext ==
    \/ \E role \in Roles : GetAllCarts(role)
    \/ \E role \in Roles : GetCartsSummary(role)
    \/ \E role \in Roles, u \in Users : GetCartsByUser(role, u)
    \/ \E role \in Roles, failAt \in 0..Cardinality(CartIds) : FixCartPrices(role, failAt)
    \/ \E s \in pendingSaves : SaveSucceeds(s)
    \/ \E s \in pendingSaves : SaveFails(s)

SpecCart == CartInit /\ [][CartNext]_vars

----------------------------------------------------------------------------
(* Claims about the cart enumeration *)

\* the requests that enumerate the carts, and those that do it by getAllCartsData
EnumOps == {"getAllCarts", "getCartsSummary", "getCartsByUser"}
DataOps == {"getCartsSummary", "getCartsByUser"}

Enumerated == resp.op \in EnumOps /\ resp.code = 200

\* the positions <<cart, item>> of the items the last enumeration read
ReadItems ==
    {ci \in (1..Len(resp.read)) \X (1..MaxItems + 1) : ci[2] <= Len(resp.read[ci[1]].items)}

StoredItem(ci)   == resp.read[ci[1]].items[ci[2]]
ReportedItem(ci) == resp.carts[ci[1]].items[ci[2]]

\* the options of the stored product that carry the sku
OptionsWithSku(productId, sku) ==
    {products[productId].variants[i].options[j] :
        <<i, j>> \in {m \in (1..Len(products[productId].variants)) \X (1..4) :
                        /\ m[2] <= Len(products[productId].variants[m[1]].options)
                        /\ products[productId].variants[m[1]].options[m[2]].sku = sku}}

\* C1: an item whose stored price is positive is reported at exactly that
\* price by getAllCarts and by getAllCartsData, and it never raises
\* needsUpdate: a cart is flagged only when one of its items has no positive
\* stored price and is reported at a positive one.
C1_PositivePriceKept ==
    Enumerated =>
        /\ \A ci \in ReadItems :
              Positive(StoredItem(ci).price) => ReportedItem(ci).price = StoredItem(ci).price
        /\ \A c \in 1..Len(resp.read) :
              resp.carts[c].needsUpdate =>
                  \E ci \in ReadItems :
                      /\ ci[1] = c
                      /\ ~Positive(StoredItem(ci).price)
                      /\ Positive(ReportedItem(ci).price)

\* C1 witness: getAllCartsData reports an item stored at 30 whose sku matched an
\* option priced 60 / 50, in a cart that is not flagged, and getAllCarts
\* reports an item stored at 30
C1_Witness ==
    /\ Enumerated
    /\ resp.op \in DataOps
    /\ \E ci \in ReadItems :
          /\ StoredItem(ci).price = 30
          /\ StoredItem(ci).sku = "A1"
          /\ ReportedItem(ci).variant = "Color"
          /\ ReportedItem(ci).price = 30
          /\ ~resp.carts[ci[1]].needsUpdate

\* what C2 says of fixCartPrices: a cart with an item whose stored price was
\* 0 or absent and whose sku matches an option with a positive price is saved
\* (cartNeedsUpdate), the item at the option's priceAfterDiscount when that
\* is positive, otherwise at its price
FixedFromOption ==
    (resp.op = "fixCartPrices" /\ resp.code = 200) =>
        \A c \in 1..Len(resp.read) : \A k \in 1..Len(resp.read[c].items) :
            ~Positive(resp.read[c].items[k].price) =>
                \A opt \in OptionsWithSku(resp.read[c].items[k].product,
                                          resp.read[c].items[k].sku) :
                    /\ Positive(opt.priceAfterDiscount) =>
                          \E d \in 1..Len(resp.saved) :
                              /\ resp.saved[d].id = resp.read[c].id
                              /\ resp.saved[d].items[k].price = opt.priceAfterDiscount
                    /\ (~Positive(opt.priceAfterDiscount) /\ Positive(opt.price)) =>
                          \E d \in 1..Len(resp.saved) :
                              /\ resp.saved[d].id = resp.read[c].id
                              /\ resp.saved[d].items[k].price = opt.price

\* C2: an item whose stored price is 0 or absent and whose sku the lookup
\* matched is reported at the option's priceAfterDiscount when that is
\* positive, otherwise at the option's price when that is positive, and in
\* both cases its cart has needsUpdate set; fixCartPrices sets the same price
\* and saves the cart.
C2_MissingPriceFromOption ==
    /\ FixedFromOption
    /\ Enumerated =>
        \A ci \in ReadItems :
            (~Positive(StoredItem(ci).price) /\ ReportedItem(ci).variant # "none") =>
                \A opt \in OptionsWithSku(StoredItem(ci).product, StoredItem(ci).sku) :
                    /\ Positive(opt.priceAfterDiscount) =>
                          /\ ReportedItem(ci).price = opt.priceAfterDiscount
                          /\ resp.carts[ci[1]].needsUpdate
                    /\ (~Positive(opt.priceAfterDiscount) /\ Positive(opt.price)) =>
                          /\ ReportedItem(ci).price = opt.price
                          /\ resp.carts[ci[1]].needsUpdate

\* C2 witness: one enumeration reports an item with an absent price at the
\* discounted price 50 and an item stored at 0 at the base price 40 of an
\* option whose discounted price is 0
C2_Witness ==
    /\ Enumerated
    /\ \E ci, cj \in ReadItems :
          /\ StoredItem(ci).price = Undefined
          /\ StoredItem(ci).sku = "A1"
          /\ ReportedItem(ci).price = 50
          /\ StoredItem(cj).price = 0
          /\ StoredItem(cj).sku = "B2"
          /\ ReportedItem(cj).price = 40
          /\ resp.carts[ci[1]].needsUpdate

\* C4: getAllCartsData reports every item's totalPrice as its reconciled price
\* times its quantity and the cart's totalPrice as the sum of these; in a cart
\* of A1 (stored 0, option discounted to 50) and A2 (stored 30, no option) A1
\* is reported at 50 and A2 at 30.
C4_MixedCartTotals ==
    (Enumerated /\ resp.op \in DataOps) =>
        /\ \A ci \in ReadItems :
              /\ ReportedItem(ci).totalPrice = ReportedItem(ci).price * StoredItem(ci).quantity
              /\ (StoredItem(ci).sku = "A1" /\ StoredItem(ci).price = 0) =>
                    ReportedItem(ci).price = 50
              /\ (StoredItem(ci).sku = "A2" /\ StoredItem(ci).price = 30) =>
                    ReportedItem(ci).price = 30
        /\ \A c \in 1..Len(resp.read) :
              resp.carts[c].totalPrice =
                  SumSeq([k \in 1..Len(resp.carts[c].items) |-> resp.carts[c].items[k].totalPrice])

\* C4 witness: a cart of A1 (stored 0, quantity 2) and A2 (stored 30, quantity
\* 1) is reported with the prices 50 and 30 and the total 130
C4_Witness ==
    /\ Enumerated
    /\ resp.op \in DataOps
    /\ \E c \in 1..Len(resp.read) :
          /\ resp.read[c].items = << [product |-> "p1", sku |-> "A1", quantity |-> 2, price |-> 0],
                                     [product |-> "p1", sku |-> "A2", quantity |-> 1, price |-> 30] >>
          /\ resp.carts[c].items[1].price = 50
          /\ resp.carts[c].items[2].price = 30
          /\ resp.carts[c].totalPrice = 130
          /\ resp.carts[c].needsUpdate

----------------------------------------------------------------------------
(* Orders: createOrder and the order lifecycle handlers *)

validStatuses        == {"pending", "processing", "shipped", "delivered", "cancelled"}
validPaymentStatuses == {"pending", "paid", "failed", "refunded"}

\* the accounts that send requests, and req.user.role of each
Callers == {"u1", "u2", "a1"}
RoleOf  == [c \in Callers |-> IF c = "a1" THEN "admin" ELSE "user"]

\* the order ids, in the order Order.create hands them out, and one no order has
OrderIdSeq == <<"o1", "o2">>
OrderIds   == {"o1", "o2"}
RequestIds == OrderIds \cup {"o9"}

\* Date.now() / new Date(), and a date field never set
Now    == "now"
NoDate == "none"

\* the document Order.create(orderData) stores: the fields createOrder gives
\* and the schema's defaults for the rest
NewOrder(id, orderData) ==
    [id              |-> id,
     user            |-> orderData.user,
     items           |-> orderData.items,
     totalOrderPrice |-> orderData.totalOrderPrice,
     notes           |-> orderData.notes,
     status          |-> "pending",
     paymentStatus   |-> "pending",
     isPaid          |-> FALSE,
     paidAt          |-> NoDate,
     isDelivered     |-> FALSE,
     deliveredAt     |-> NoDate]

\* cart.clearCart(): the cart without its items
ClearedCart(cart) == [cart EXCEPT !.items = <<>>]

\* Cart.findOne({ user: userId }): the ids of the user's carts (none or one)
CartsOf(userId) == {c \in DOMAIN carts : carts[c].user = userId}

\* an order item priced at the price stored on the cart item
OrderItemStoredPrice(item, matched) ==
    [product  |-> item.product,
     sku      |-> item.sku,
     quantity |-> item.quantity,
     price    |-> OrElse(item.price, 0)]

\* an order item that takes one unit whatever the cart item's quantity
OrderItemOneUnit(item, matched) ==
    [product  |-> item.product,
     sku      |-> item.sku,
     quantity |-> 1,
     price    |-> OrElse(matched.option.priceAfterDiscount, matched.option.price)]

\* the order item createOrder builds from a cart item and its matched option
OrderItem(item, matched) ==
    [product  |-> item.product,
     sku      |-> item.sku,
     quantity |-> item.quantity,
     price    |-> OrElse(matched.option.priceAfterDiscount, matched.option.price)]

\* the first unused order id
RECURSIVE FirstFree(_)
FirstFree(ids) ==
    IF ids = <<>> THEN "none"
    ELSE IF Head(ids) \notin DOMAIN orders THEN Head(ids)
    ELSE FirstFree(Tail(ids))

Failure(op, id, code) == [op |-> op, code |-> code, id |-> id]

\* Order.findById(id) found nothing
Missing(id) == id \notin DOMAIN orders

\* a save that stores the order without its items
SavedWithoutItems(op, id, after) ==
    /\ orders' = [orders EXCEPT ![id] = [after EXCEPT !.items = <<>>]]
    /\ resp' = [op |-> op, code |-> 200, id |-> id, before |-> orders[id],
                order |-> [after EXCEPT !.items = <<>>]]

\* order.save() and the response carrying the saved order; before is the
\* document findById returned
Saved(op, id, after) ==
    /\ orders' = [orders EXCEPT ![id] = after]
    /\ resp' = [op |-> op, code |-> 200, id |-> id, before |-> orders[id], order |-> after]

\* a refusal sent as a server error
RefusedAsServerError(message) ==
    [op |-> "createOrder", code |-> 500, id |-> "none", message |-> message]

\* createOrder's next(new AppError(message, 400)) and throw new AppError(message, 400)
Refused(message) == [op |-> "createOrder", code |-> 400, id |-> "none", message |-> message]

\* a checkout that takes the created order back when clearing the cart fails
CreateThenClearRolledBack(c, id, order, clearOk) ==
    IF clearOk
    THEN /\ orders' = [o \in DOMAIN orders \cup {id} |->
                         IF o = id THEN order ELSE orders[o]]
         /\ carts' = [carts EXCEPT ![c] = ClearedCart(carts[c])]
         /\ resp' = [op |-> "createOrder", code |-> 201, id |-> id, order |-> order]
    ELSE /\ orders' = orders
         /\ carts' = carts
         /\ resp' = Failure("createOrder", id, 500)

\* await Order.create(orderData); await cart.clearCart(); res.status(201):
\* the order is stored first; when clearCart rejects, the error goes to the
\* error handler with the order stored and the cart as it was
CreateThenClear(c, id, order, clearOk) ==
    /\ orders' = [o \in DOMAIN orders \cup {id} |->
                    IF o = id THEN order ELSE orders[o]]
    /\ IF clearOk
       THEN /\ carts' = [carts EXCEPT ![c] = ClearedCart(carts[c])]
            /\ resp' = [op |-> "createOrder", code |-> 201, id |-> id,
                        order |-> order]
       ELSE /\ carts' = carts
            /\ resp' = Failure("createOrder", id, 500)

\* createOrder: the user's cart becomes an order and is cleared; addressOk
\* says whether req.body.shippingAddress passes the check of lines 65-71,
\* clearOk whether cart.clearCart() resolves
CreateOrder(caller, addressOk, notes, clearOk) ==
    /\ FirstFree(OrderIdSeq) # "none"
    /\ IF CartsOf(caller) = {} \/ (\E c \in CartsOf(caller) : Len(carts[c].items) = 0)
       THEN /\ resp' = Refused("Your cart is empty")
            /\ UNCHANGED <<carts, orders>>
       ELSE IF ~addressOk
       THEN /\ resp' = Refused("Complete bilingual shipping address is required")
            /\ UNCHANGED <<carts, orders>>
       ELSE \E c \in CartsOf(caller) :
            \E found \in {[k \in 1..Len(carts[c].items) |->
                             FindOption(Populate(carts[c].items[k].product,
                                                 {"name", "price", "variants", "images"}),
                                        carts[c].items[k].sku)]} :
            IF \E k \in 1..Len(found) : ~found[k].found
            THEN /\ resp' = Refused("Invalid SKU")
                 /\ UNCHANGED <<carts, orders>>
            ELSE \E items \in {[k \in 1..Len(found) |-> OrderItem(carts[c].items[k], found[k])]} :
                 \E id \in {FirstFree(OrderIdSeq)} :
                 \E order \in {NewOrder(id,
                                  [user  |-> caller,
                                   items |-> items,
                                   notes |-> notes,
                                   totalOrderPrice |->
                                      SumSeq([k \in 1..Len(items) |->
                                                items[k].price * items[k].quantity])])} :
                    CreateThenClear(c, id, order, clearOk)
    /\ UNCHANGED <<products, pendingSaves, pageVars>>

\* updateOrderToPaid
UpdateOrderToPaid(id) ==
    /\ IF Missing(id)
       THEN resp' = Failure("updateOrderToPaid", id, 404) /\ UNCHANGED orders
       ELSE Saved("updateOrderToPaid", id,
                  [orders[id] EXCEPT !.isPaid = TRUE,
                                     !.paymentStatus = "paid",
                                     !.status = "processing"])
    /\ UNCHANGED <<products, carts, pendingSaves, pageVars>>

\* updateOrderToDelivered
UpdateOrderToDelivered(id) ==
    /\ IF Missing(id)
       THEN resp' = Failure("updateOrderToDelivered", id, 404) /\ UNCHANGED orders
       ELSE Saved("updateOrderToDelivered", id,
                  [orders[id] EXCEPT !.isDelivered = TRUE,
                                     !.deliveredAt = Now,
                                     !.status = "delivered"])
    /\ UNCHANGED <<products, carts, pendingSaves, pageVars>>

\* what order.save() can answer to a status set by updateOrderStatus: 0 when
\* the document is stored, else the code of the error response. The handler
\* checks nothing itself; a status outside validStatuses is stored or refused
\* as the Order schema and the error middleware decide, and both outcomes are
\* kept. A listed status is always stored.
SaveAnswers(status) == IF status \in validStatuses THEN {0} ELSE {0, 400, 500}

\* updateOrderStatus: order.status = req.body.status, then order.save(); the
\* handler's effect on the orders and its response
UpdateOrderStatusHandler(id, status, answer) ==
    /\ answer \in SaveAnswers(status)
    /\ IF Missing(id)
       THEN answer = 0 /\ resp' = Failure("updateOrderStatus", id, 404) /\ UNCHANGED orders
       ELSE IF answer # 0
       THEN resp' = Failure("updateOrderStatus", id, answer) /\ UNCHANGED orders
       ELSE Saved("updateOrderStatus", id, [orders[id] EXCEPT !.status = status])

\* PUT /api/orders/:id/status sent by a client other than the orders page
UpdateOrderStatus(id, status, answer) ==
    /\ UpdateOrderStatusHandler(id, status, answer)
    /\ UNCHANGED <<products, carts, pendingSaves, pageVars>>

\* markOrderAsPaid
MarkOrderAsPaid(id) ==
    /\ IF Missing(id)
       THEN resp' = Failure("markOrderAsPaid", id, 404) /\ UNCHANGED orders
       ELSE Saved("markOrderAsPaid", id,
                  [orders[id] EXCEPT !.isPaid = TRUE,
                                     !.paidAt = Now,
                                     !.paymentStatus = "paid"])
    /\ UNCHANGED <<products, carts, pendingSaves, pageVars>>

\* cancelOrder with the order's state checked before its owner
CancelOrderStateFirst(id, caller) ==
    /\ IF Missing(id)
       THEN resp' = Failure("cancelOrder", id, 404) /\ UNCHANGED orders
       ELSE IF orders[id].status # "pending"
       THEN resp' = Failure("cancelOrder", id, 400) /\ UNCHANGED orders
       ELSE IF orders[id].user # caller
       THEN resp' = Failure("cancelOrder", id, 403) /\ UNCHANGED orders
       ELSE /\ orders' = [orders EXCEPT ![id].status = "cancelled"]
            /\ resp' = [op |-> "cancelOrder", code |-> 200, id |-> id,
                        before |-> orders[id],
                        order |-> [orders[id] EXCEPT !.status = "cancelled"]]
    /\ UNCHANGED <<products, carts, pendingSaves, pageVars>>

\* cancelOrder without the check of the order's state
CancelOrderAnyState(id, caller) ==
    /\ IF Missing(id)
       THEN resp' = Failure("cancelOrder", id, 404) /\ UNCHANGED orders
       ELSE IF orders[id].user # caller
       THEN resp' = Failure("cancelOrder", id, 403) /\ UNCHANGED orders
       ELSE /\ orders' = [orders EXCEPT ![id].status = "cancelled"]
            /\ resp' = [op |-> "cancelOrder", code |-> 200, id |-> id,
                        before |-> orders[id],
                        order |-> [orders[id] EXCEPT !.status = "cancelled"]]
    /\ UNCHANGED <<products, carts, pendingSaves, pageVars>>

\* cancelOrder: existence, then ownership, then state
CancelOrder(id, caller) ==
    /\ IF Missing(id)
       THEN resp' = Failure("cancelOrder", id, 404) /\ UNCHANGED orders
       ELSE IF orders[id].user # caller
       THEN resp' = Failure("cancelOrder", id, 403) /\ UNCHANGED orders
       ELSE IF orders[id].status # "pending"
       THEN resp' = Failure("cancelOrder", id, 400) /\ UNCHANGED orders
       ELSE /\ orders' = [orders EXCEPT ![id].status = "cancelled"]
            /\ resp' = [op |-> "cancelOrder", code |-> 200, id |-> id,
                        before |-> orders[id],
                        order |-> [orders[id] EXCEPT !.status = "cancelled"]]
    /\ UNCHANGED <<products, carts, pendingSaves, pageVars>>

\* deleteOrder
DeleteOrder(id) ==
    /\ IF Missing(id)
       THEN resp' = Failure("deleteOrder", id, 404) /\ UNCHANGED orders
       ELSE /\ orders' = [o \in DOMAIN orders \ {id} |-> orders[o]]
            /\ resp' = [op |-> "deleteOrder", code |-> 200, id |-> id]
    /\ UNCHANGED <<products, carts, pendingSaves, pageVars>>

\* updatePaymentStatus
UpdatePaymentStatus(id, paymentStatus) ==
    /\ IF paymentStatus \notin validPaymentStatuses
       THEN resp' = Failure("updatePaymentStatus", id, 400) /\ UNCHANGED orders
       ELSE IF Missing(id)
       THEN resp' = Failure("updatePaymentStatus", id, 404) /\ UNCHANGED orders
       ELSE Saved("updatePaymentStatus", id,
                  IF paymentStatus = "paid"
                  THEN [orders[id] EXCEPT !.paymentStatus = paymentStatus,
                                          !.status = "processing",
                                          !.isPaid = TRUE,
                                          !.paidAt = Now]
                  ELSE [orders[id] EXCEPT !.paymentStatus = paymentStatus])
    /\ UNCHANGED <<products, carts, pendingSaves, pageVars>>

\* updateOrderNotes: the owner or an admin sets the notes
UpdateOrderNotes(id, caller, notes) ==
    /\ IF Missing(id)
       THEN resp' = Failure("updateOrderNotes", id, 404) /\ UNCHANGED orders
       ELSE IF orders[id].user # caller /\ RoleOf[caller] # "admin"
       THEN resp' = Failure("updateOrderNotes", id, 403) /\ UNCHANGED orders
       ELSE Saved("updateOrderNotes", id, [orders[id] EXCEPT !.notes = notes])
    /\ UNCHANGED <<products, carts, pendingSaves, pageVars>>

----------------------------------------------------------------------------
(* Specification SpecOrder: one customer's checkout and the order's life *)

NoteTexts == {"none", "gift"}

\* the values a request can carry: the listed ones and one that is not listed
StatusInputs        == validStatuses \cup {"returned"}
PaymentStatusInputs == validPaymentStatuses \cup {"bogus"}

\* u1's cart holds two items with matching skus, u2's cart is empty
OrderCarts ==
    [c \in CartIds |->
        CartDoc(c,
                IF c = "c1"
                THEN << [product |-> "p1", sku |-> "A1", quantity |-> 2, price |-> 0],
                        [product |-> "p1", sku |-> "B1", quantity |-> 1, price |-> 30] >>
                ELSE <<>>,
                0)]

OrderInit ==
    /\ products = Catalog
    /\ carts = OrderCarts
    /\ orders = NoOrders
    /\ pendingSaves = {}
    /\ resp = NoResp
    /\ cartData = NoPage
    /\ editingCart = NoEditing
    /\ view = NoView
    /\ updatingOrderId = NoOrderId
    /\ statusUpdates = {}

OrderNext ==
    \/ \E caller \in Callers, addressOk \in BOOLEAN, notes \in NoteTexts :
          CreateOrder(caller, addressOk, notes, TRUE)
    \/ \E id \in RequestIds : UpdateOrderToPaid(id)
    \/ \E id \in RequestIds : UpdateOrderToDelivered(id)
    \/ \E id \in RequestIds, status \in StatusInputs, answer \in {0, 400, 500} :
          UpdateOrderStatus(id, status, answer)
    \/ \E id \in RequestIds : MarkOrderAsPaid(id)
    \/ \E id \in RequestIds, caller \in Callers : CancelOrder(id, caller)
    \/ \E id \in RequestIds : DeleteOrder(id)
    \/ \E id \in RequestIds, ps \in PaymentStatusInputs :
          UpdatePaymentStatus(id, ps)
    \/ \E id \in RequestIds, caller \in Callers, notes \in NoteTexts :
          UpdateOrderNotes(id, caller, notes)

SpecOrder == OrderInit /\ [][OrderNext]_vars

----------------------------------------------------------------------------
(* Claims about the order lifecycle, checked under SpecOrder *)

TerminalStatuses == {"delivered", "cancelled"}

\* the orders a step keeps
Kept == DOMAIN orders \cap DOMAIN orders'

\* C6: once an order's status is delivered or cancelled, no order operation
\* changes its status to a different value.
C6_TerminalStatusFinal ==
    [][\A id \in Kept :
          orders[id].status \in TerminalStatuses
             => orders'[id].status = orders[id].status]_vars

\* C7: in every step in which an order's status changes to cancelled, the
\* order's status before the step was pending.
C7_CancelledOnlyFromPending ==
    [][\A id \in Kept :
          (orders'[id].status = "cancelled" /\ orders[id].status # "cancelled")
             => orders[id].status = "pending"]_vars

\* C8: cancelOrder called by the order's owner answers 400 and leaves the
\* orders as they are when the order is not pending, and answers 200 with the
\* order's status set to cancelled when it is pending.
C8_OwnerCancel ==
    [][\A id \in OrderIds, caller \in Callers :
          (/\ id \in DOMAIN orders
           /\ orders[id].user = caller
           /\ CancelOrder(id, caller))
             => IF orders[id].status # "pending"
                THEN resp'.code = 400 /\ orders' = orders
                ELSE /\ resp'.code = 200
                     /\ orders'[id].status = "cancelled"
                     /\ resp'.order = orders'[id]]_vars

\* the owner's cancelOrder of a processing order was refused
C8_Witness ==
    /\ resp.op = "cancelOrder"
    /\ resp.code = 400
    /\ resp.id \in DOMAIN orders
    /\ orders[resp.id].status = "processing"

\* the response of an operation that left the order's paymentStatus at paid
MarkedPaid ==
    /\ resp.op \in {"updateOrderToPaid", "markOrderAsPaid", "updatePaymentStatus"}
    /\ resp.code = 200
    /\ resp.order.paymentStatus = "paid"
    /\ resp.op = "updatePaymentStatus" => resp.before.paymentStatus # "paid"

\* C9: an operation that marks an order paid saves paymentStatus paid,
\* isPaid true and status processing together.
C9_PaidTogether ==
    MarkedPaid => /\ resp.order.isPaid
                  /\ resp.order.status = "processing"
                  /\ orders[resp.id] = resp.order

\* C10: an order whose paymentStatus is paid has its paidAt set.
C10_PaidHasTimestamp ==
    \A id \in DOMAIN orders :
        orders[id].paymentStatus = "paid" => orders[id].paidAt # NoDate

----------------------------------------------------------------------------
(* The cart page: the query, the order summary and the edit dialog *)

\* A number of the page is written in thousandths: 198 is 198000. The page's
\* products and quotients below are exact on the integer prices and the
\* percents that are multiples of ten which the specification draws.
Thousandths(x) == IF x \in {Undefined, NaN} THEN NaN ELSE x * 1000

\* obj.name: undefined when the object has no such property
Field(obj, name) == IF name \in DOMAIN obj THEN obj[name] ELSE Undefined

\* a * (p / 100) and a * (1 - p / 100), a in thousandths and p a percent
TimesPercent(a, p) ==
    IF a = NaN \/ p \in {Undefined, NaN} THEN NaN ELSE (a * p) \div 100

TimesRest(a, p) ==
    IF a = NaN \/ p \in {Undefined, NaN} THEN NaN ELSE (a * (100 - p)) \div 100

\* a * 0.1 and a * 1.1
TimesTax(a) == IF a = NaN THEN NaN ELSE a \div 10

TimesWithTax(a) == IF a = NaN THEN NaN ELSE (a * 11) \div 10

\* formatCurrency(amount): the text num.toFixed(2), or "0.00" for NaN; the
\* text is written as the number of hundredths it spells ("198.00" is 19800)
formatCurrency(amount) == IF amount = NaN THEN 0 ELSE (amount + 5) \div 10

\* items.reduce((sum, item) => sum + item.price * item.quantity, 0)
Subtotal(items) ==
    Thousandths(SumSeq([k \in 1..Len(items) |-> items[k].price * items[k].quantity]))

\* GET /api/cart: the caller's cart with the totals of the aggregator
\* (totalPriceBeforeDiscount, the discount and totalPriceAfterDiscount)
GetCart(userId) ==
    LET cart   == carts[CHOOSE c \in DOMAIN carts : carts[c].user = userId]
        before == SumSeq([k \in 1..Len(cart.items) |->
                             cart.items[k].price * cart.items[k].quantity])
    IN  [id                        |-> cart.id,
         items                     |-> cart.items,
         totalItems                |-> SumSeq([k \in 1..Len(cart.items) |->
                                                  cart.items[k].quantity]),
         totalPriceBeforeDiscount  |-> before,
         calculatedDiscountPercent |-> cart.discount,
         discountAmount            |-> (before * cart.discount) \div 100,
         totalPriceAfterDiscount   |-> before - (before * cart.discount) \div 100]

\* the Order Summary of the user view, read from the query's data
OrderSummary(data) ==
    [rendered      |-> "summary",
     subtotal      |-> formatCurrency(Thousandths(Field(data, "totalPriceBeforeDiscount"))),
     discountShown |-> Field(data, "calculatedDiscountPercent") > 0,
     discount      |-> formatCurrency(
                          TimesPercent(Thousandths(Field(data, "totalPriceBeforeDiscount")),
                                       Field(data, "calculatedDiscountPercent"))),
     tax           |-> formatCurrency(
                          TimesTax(Thousandths(Field(data, "totalPriceAfterDiscount")))),
     total         |-> formatCurrency(
                          TimesWithTax(Thousandths(Field(data, "totalPriceAfterDiscount"))))]

\* the summary of the edit dialog, shown when the edited cart has items
EditSummary(cart) ==
    [shown         |-> TRUE,
     totalProducts |-> SumSeq([k \in 1..Len(cart.items) |-> cart.items[k].quantity]),
     subtotal      |-> formatCurrency(Subtotal(cart.items)),
     discount      |-> OrElse(cart.discount, 0),
     finalTotal    |-> formatCurrency(TimesRest(Subtotal(cart.items),
                                                OrElse(cart.discount, 0)))]

\* what the component renders from its query data and its editingCart state
Render(data, editing) ==
    IF ~data.loaded THEN NoView
    ELSE IF data.isAdmin
    THEN [rendered    |-> "admin",
          editSummary |-> IF editing.open /\ Len(editing.cart.items) > 0
                          THEN EditSummary(editing.cart)
                          ELSE [shown |-> FALSE]]
    ELSE OrderSummary(data)

\* fetchCarts: the admin listing for an admin, the caller's own cart for
\* anyone else, kept as the query's data
FetchCarts(caller) ==
    /\ IF RoleOf[caller] = "admin"
       THEN /\ GetAllCartsHandler("admin")
            /\ cartData' = [isAdmin |-> TRUE, loaded |-> TRUE, carts |-> resp'.carts]
       ELSE /\ CartsOf(caller) # {}
            /\ resp' = [op |-> "getCart", code |-> 200, data |-> GetCart(caller)]
            /\ cartData' = [isAdmin |-> FALSE, loaded |-> TRUE, cart |-> resp'.data]
            /\ UNCHANGED pendingSaves
    /\ view' = Render(cartData', editingCart)
    /\ UNCHANGED <<products, carts, orders, editingCart, ordersPageVars>>

\* handleUpdateCart(cart): the edit dialog opens on a cart of the listing
HandleUpdateCart(k) ==
    /\ cartData.loaded /\ cartData.isAdmin
    /\ k \in 1..Len(cartData.carts)
    /\ editingCart' = [open |-> TRUE, cart |-> cartData.carts[k]]
    /\ view' = Render(cartData, editingCart')
    /\ UNCHANGED <<storeVars, resp, cartData, ordersPageVars>>

\* the discount input's onChange: discount: Number(e.target.value)
ChangeDiscount(value) ==
    /\ editingCart.open
    /\ editingCart' = [editingCart EXCEPT !.cart.discount = value]
    /\ view' = Render(cartData, editingCart')
    /\ UNCHANGED <<storeVars, resp, cartData, ordersPageVars>>

\* Number(editingCart.discount) of the Save button
SentDiscount(discount) == IF discount \in {Undefined, NaN} THEN NaN ELSE discount

\* the items the Save button and handleSaveCart build from the edited items
SentItems(items) ==
    [k \in 1..Len(items) |->
        [product  |-> items[k].productId,
         quantity |-> IF items[k].quantity < 1 THEN 1 ELSE items[k].quantity,
         price    |-> OrElse(items[k].price, 0),
         sku      |-> items[k].sku]]

\* the Save button, handleSaveCart and updateCartMutation with its PATCH
\* answered: the cart is updated and, on success, the dialog closes
HandleSaveCart ==
    /\ editingCart.open
    /\ UpdateCartByIdHandler(editingCart.cart.id,
                             [discount |-> SentDiscount(editingCart.cart.discount),
                              items    |-> SentItems(editingCart.cart.items)])
    /\ editingCart' = IF resp'.code = 200
                      THEN [editingCart EXCEPT !.open = FALSE]
                      ELSE editingCart
    /\ view' = Render(cartData, editingCart')
    /\ UNCHANGED <<products, orders, pendingSaves, cartData, ordersPageVars>>

----------------------------------------------------------------------------
(* Specification SpecPage: the cart page over a store of two carts *)

PagePrices    == {30, 100}
PageDiscounts == {0, 10}
\* what the admin can type into the discount input: min and max are
\* attributes of the input and stop no typed value
TypedDiscounts == {50, 150}

PageItems ==
    {[product |-> "p1", sku |-> "A2", quantity |-> q, price |-> p] :
        q \in Quantities, p \in PagePrices}

PageInit ==
    /\ products = Catalog
    /\ \E n \in 0..MaxItems : \E items \in [1..n -> PageItems] :
       \E discount \in PageDiscounts :
          carts = [c \in CartIds |->
                     IF c = "c1"
                     THEN CartDoc(c, items, discount)
                     ELSE CartDoc(c, << [product |-> "p1", sku |-> "A2",
                                         quantity |-> 1, price |-> 30] >>, 0)]
    /\ orders = NoOrders
    /\ pendingSaves = {}
    /\ resp = NoResp
    /\ cartData = NoPage
    /\ editingCart = NoEditing
    /\ view = NoView
    /\ updatingOrderId = NoOrderId
    /\ statusUpdates = {}

PageNext ==
    \/ \E caller \in Callers : FetchCarts(caller)
    \/ \E k \in 1..Len(CartOrder) : HandleUpdateCart(k)
    \/ \E value \in TypedDiscounts : ChangeDiscount(value)
    \/ HandleSaveCart

SpecPage == PageInit /\ [][PageNext]_vars

\* the totals the aggregator defines for a stored cart, as the page would
\* print them
ExpectedSummary(cart) ==
    LET before == Subtotal(cart.items)
        off    == TimesPercent(before, cart.discount)
    IN  [subtotal |-> formatCurrency(before),
         discount |-> formatCurrency(off),
         after    |-> formatCurrency(before - off),
         total    |-> formatCurrency(TimesWithTax(before - off))]

\* C5: the order summary shows totalPriceBeforeDiscount, the discount amount
\* totalPriceBeforeDiscount x discountPercent / 100 and, as the total,
\* totalPriceAfterDiscount x 1.1: 200, 20 and 198 for one item of price 100
\* and quantity 2 with discount 10.
C5_DisplayedTotals ==
    view.rendered = "summary" =>
        \E expected \in {ExpectedSummary(carts[cartData.cart.id])} :
            /\ view.subtotal = expected.subtotal
            /\ view.total = expected.total
            /\ carts[cartData.cart.id].discount > 0 =>
                  view.discountShown /\ view.discount = expected.discount

----------------------------------------------------------------------------
(* Claims about the order's items and the checkout, checked under SpecOrder *)

\* C11: no order operation changes the item list of an order it keeps: the
\* items, their number and their order stay as createOrder stored them.
C11_ItemsFrozen ==
    [][\A id \in Kept : orders'[id].items = orders[id].items]_vars

\* an order with items went through a notes update
C11_Witness ==
    /\ resp.op = "updateOrderNotes"
    /\ resp.code = 200
    /\ resp.id \in DOMAIN orders
    /\ Len(orders[resp.id].items) > 0
    /\ orders[resp.id].notes # resp.before.notes

----------------------------------------------------------------------------
(* Claims about the enumeration's edge cases, checked under SpecCart *)

\* C12: the enumeration answers 200 with the reconciled prices in the very
\* step that starts a write-back, without waiting for it, and a write-back
\* that fails changes neither the response nor any cart.
C12_WriteBackFailureSwallowed ==
    [][/\ \A s \in pendingSaves' \ pendingSaves :
             /\ resp'.code = 200
             /\ resp'.op \in EnumOps
             /\ \A k \in 1..Len(resp'.read) :
                   resp'.read[k].id = s.cart =>
                       \A i \in 1..Len(s.doc.items) :
                           resp'.read[k].items[i].price = 0 =>
                               resp'.carts[k].items[i].price = s.doc.items[i].price
       /\ \A s \in pendingSaves :
             SaveFails(s) => resp' = resp /\ carts' = carts]_vars

\* an enumeration reported a corrected price, its write-back is no longer
\* pending, and the cart is still stored at price 0: the save failed
C12_Witness ==
    /\ Enumerated
    /\ \E k \in 1..Len(resp.read) :
          /\ resp.carts[k].needsUpdate
          /\ carts[resp.read[k].id] = resp.read[k]
          /\ ~\E s \in pendingSaves : s.cart = resp.read[k].id
          /\ \E i \in 1..Len(resp.read[k].items) :
                /\ resp.read[k].items[i].price = 0
                /\ resp.carts[k].items[i].price > 0

----------------------------------------------------------------------------
(* Specification SpecCheckout: the callers of the variant lookup (the two
   enumerations, fixCartPrices and createOrder) over every small cart of
   one customer *)

\* a matched sku with a discounted price, a matched sku without any positive
\* price, and a sku no option carries
CheckoutSkus == {"A1", "Z0", "A2"}

CheckoutItems ==
    [product : {"p1"}, sku : CheckoutSkus, quantity : Quantities, price : StoredPrices]

CheckoutInit ==
    /\ products = Catalog
    /\ \E n \in 0..MaxItems : \E items \in [1..n -> CheckoutItems] :
          carts = [c \in CartIds |-> CartDoc(c, IF c = "c1" THEN items ELSE <<>>, 0)]
    /\ orders = NoOrders
    /\ pendingSaves = {}
    /\ resp = NoResp
    /\ cartData = NoPage
    /\ editingCart = NoEditing
    /\ view = NoView
    /\ updatingOrderId = NoOrderId
    /\ statusUpdates = {}

CheckoutNext ==
    \/ GetAllCarts("admin")
    \/ GetCartsSummary("admin")
    \/ \E failAt \in 0..1 : FixCartPrices("admin", failAt)
    \/ \E s \in pendingSaves : SaveSucceeds(s)
    \/ \E s \in pendingSaves : SaveFails(s)
    \/ \E caller \in Callers, addressOk \in BOOLEAN, clearOk \in BOOLEAN :
          CreateOrder(caller, addressOk, "none", clearOk)

SpecCheckout == CheckoutInit /\ [][CheckoutNext]_vars

----------------------------------------------------------------------------
(* Claims about the callers of the variant lookup, checked under SpecCheckout *)

\* no option of the item's product carries the item's sku
Unmatched(item) == OptionsWithSku(item.product, item.sku) = {}

\* the caller has a cart with items, one of them with an unmatched sku
HasUnmatched(caller) ==
    \E c \in CartsOf(caller) :
        \E k \in 1..Len(carts[c].items) : Unmatched(carts[c].items[k])

\* a createOrder request of the caller with a complete shipping address
Checkout(caller) ==
    \E clearOk \in BOOLEAN : CreateOrder(caller, TRUE, "none", clearOk)

\* C13 as stated: order creation too treats a sku without a match as "no
\* enrichment available" and raises no error for it.
C13_NoMatchNeverAnError ==
    [][\A caller \in Callers :
          (HasUnmatched(caller) /\ Checkout(caller)) => resp'.code # 400]_vars

\* C13: the cart enumerations and fixCartPrices raise no error for an item
\* whose sku matches no option and go on with its stored price (0 in the
\* report when there is none); createOrder refuses the whole checkout with
\* 400 "Invalid SKU", stores no order and leaves the cart as it is.
C13_NoMatchByCaller ==
    [][/\ (Enumerated =>
              \A ci \in ReadItems :
                  Unmatched(StoredItem(ci)) =>
                      ReportedItem(ci).price = OrElse(StoredItem(ci).price, 0))'
       /\ \A failAt \in 0..1 :
             FixCartPrices("admin", failAt) =>
                 /\ failAt = 0 => resp'.code = 200
                 /\ \A c \in DOMAIN carts : \A k \in 1..Len(carts[c].items) :
                       Unmatched(carts[c].items[k]) =>
                           carts'[c].items[k] = carts[c].items[k]
       /\ \A caller \in Callers :
             (HasUnmatched(caller) /\ Checkout(caller)) =>
                 /\ resp'.code = 400
                 /\ resp'.message = "Invalid SKU"
                 /\ orders' = orders
                 /\ carts' = carts]_vars

\* a checkout was refused for its sku while the cart holds an item that
\* matches and one that does not
C13_Witness ==
    /\ resp.op = "createOrder"
    /\ resp.code = 400
    /\ resp.message = "Invalid SKU"
    /\ \E k \in 1..Len(carts["c1"].items) : Unmatched(carts["c1"].items[k])
    /\ \E k \in 1..Len(carts["c1"].items) : ~Unmatched(carts["c1"].items[k])

----------------------------------------------------------------------------
(* Claims about unmatched and empty carts, checked under SpecCart *)

\* an item without a match and without a positive stored price
Unpriced(item) == Unmatched(item) /\ ~Positive(item.price)

\* C14: an item whose sku matches no option and whose stored price is 0 or
\* absent is reported with price 0 and totalPrice 0, and a cart is never
\* flagged for a write-back when all its items are such items.
C14_UnmatchedUnpricedIsZero ==
    Enumerated =>
        /\ \A ci \in ReadItems :
              Unpriced(StoredItem(ci)) =>
                  ReportedItem(ci).price = 0 /\ ReportedItem(ci).totalPrice = 0
        /\ \A k \in 1..Len(resp.read) :
              (\A i \in 1..Len(resp.read[k].items) : Unpriced(resp.read[k].items[i]))
                  => ~resp.carts[k].needsUpdate

\* getAllCartsData reported a cart of two unmatched items, one stored without a
\* price and one stored at 0
C14_Witness ==
    /\ Enumerated
    /\ resp.op \in DataOps
    /\ \E k \in 1..Len(resp.read) :
          /\ Len(resp.read[k].items) = 2
          /\ Unpriced(resp.read[k].items[1]) /\ resp.read[k].items[1].price = Undefined
          /\ Unpriced(resp.read[k].items[2]) /\ resp.read[k].items[2].price = 0
          /\ resp.carts[k].totalPrice = 0
          /\ ~resp.carts[k].needsUpdate

----------------------------------------------------------------------------
(* Specification SpecStore: the enumerations over stores of no, one or two
   carts, with carts deleted meanwhile *)

\* the discounts a PATCH of a cart can carry
SentDiscounts == {0, 150}

StoreItems ==
    {[product |-> "p1", sku |-> "A1", quantity |-> 2, price |-> 0],
     [product |-> "p1", sku |-> "A2", quantity |-> 1, price |-> 30]}

\* the bodies a PATCH of a cart can carry: a discount, or a list of items
SentBodies ==
    {[discount |-> d] : d \in SentDiscounts} \cup {[items |-> <<it>>] : it \in StoreItems}

\* the stores holding any of the carts, each empty or with one item
StoreInit ==
    /\ products = Catalog
    /\ \E ids \in SUBSET CartIds :
       \E items \in [ids -> {<<>>} \cup {<<it>> : it \in StoreItems}] :
          carts = [c \in ids |-> CartDoc(c, items[c], 0)]
    /\ orders = NoOrders
    /\ pendingSaves = {}
    /\ resp = NoResp
    /\ cartData = NoPage
    /\ editingCart = NoEditing
    /\ view = NoView
    /\ updatingOrderId = NoOrderId
    /\ statusUpdates = {}

StoreNext ==
    \/ \E role \in Roles : GetAllCarts(role)
    \/ \E role \in Roles : GetCartsSummary(role)
    \/ \E role \in Roles, u \in Users : GetCartsByUser(role, u)
    \/ \E role \in Roles : GetCartAnalytics(role)
    \/ \E role \in Roles, failAt \in 0..1 : FixCartPrices(role, failAt)
    \/ \E cartId \in CartIds : DeleteCartById(cartId)
    \/ \E cartId \in CartIds, body \in SentBodies : UpdateCartById(cartId, body)
    \/ \E s \in pendingSaves : SaveSucceeds(s)
    \/ \E s \in pendingSaves : SaveFails(s)

SpecStore == StoreInit /\ [][StoreNext]_vars

\* the average an enumeration reported, if it reports one
ReportedAverage ==
    IF resp.op = "getCartsSummary" THEN resp.summary.averageCartValue
    ELSE resp.statistics.averageCartValue

\* C15: a cart without items is reported with totalPrice 0 and totalItems 0
\* and gets no write-back, and the summary and the per-user statistics
\* report the average cart value 0, never a quotient by zero, when they
\* cover no cart.
C15_EmptyIsZero ==
    /\ \A s \in pendingSaves : Len(s.doc.items) > 0
    /\ Enumerated =>
          /\ \A k \in 1..Len(resp.read) :
                Len(resp.read[k].items) = 0 =>
                    /\ resp.carts[k].totalPrice = 0
                    /\ resp.carts[k].totalItems = 0
                    /\ ~resp.carts[k].needsUpdate
          /\ resp.op \in DataOps =>
                /\ ReportedAverage.den # 0
                /\ Len(resp.carts) = 0 => ReportedAverage = Ratio(0, 1)

\* the summary of a store without carts
C15_Witness ==
    /\ resp.op = "getCartsSummary"
    /\ resp.code = 200
    /\ Len(resp.carts) = 0
    /\ resp.summary.averageCartValue = Ratio(0, 1)
    /\ DOMAIN carts = {}

----------------------------------------------------------------------------
(* Claims about createOrder, checked under SpecCheckout *)

\* any createOrder request of the caller
AnyCheckout(caller) ==
    \E addressOk \in BOOLEAN, clearOk \in BOOLEAN :
        CreateOrder(caller, addressOk, "none", clearOk)

\* C16: createOrder on a cart holding an item whose sku matches no option of
\* its product answers 400, stores no order and leaves every cart as it is.
C16_InvalidSkuRefused ==
    [][\A caller \in Callers :
          (HasUnmatched(caller) /\ AnyCheckout(caller)) =>
              /\ resp'.op = "createOrder"
              /\ resp'.code = 400
              /\ DOMAIN orders' = DOMAIN orders
              /\ carts' = carts]_vars

\* a checkout of two items, both without a match, was refused for the sku
\* and the cart still holds them
C16_Witness ==
    /\ resp.op = "createOrder"
    /\ resp.code = 400
    /\ resp.message = "Invalid SKU"
    /\ DOMAIN orders = {}
    /\ Len(carts["c1"].items) = 2
    /\ \A k \in 1..2 : Unmatched(carts["c1"].items[k])

----------------------------------------------------------------------------
(* Claims about the admin's cart update, checked under SpecPage *)

\* C18: after any sequence of edits in the cart dialog and of updateCartById
\* calls, the discount percent stored in every cart lies in 0..100.
C18_StoredDiscountInRange ==
    \A c \in DOMAIN carts : carts[c].discount \in 0..100

----------------------------------------------------------------------------
(* Claims about the admin-only cart endpoints, checked under SpecStore *)

\* a request of a caller whose role is not admin to one of the five endpoints
ByNonAdmin ==
    \/ GetAllCarts("user")
    \/ GetCartsSummary("user")
    \/ \E u \in Users : GetCartsByUser("user", u)
    \/ GetCartAnalytics("user")
    \/ \E failAt \in 0..1 : FixCartPrices("user", failAt)

\* C19: the listing, the per-user carts, the summary, the analytics and the
\* bulk price fix answer a caller who is not an admin with 403 and nothing
\* else, start no write-back and change no cart.
C19_AdminOnly ==
    [][ByNonAdmin =>
          /\ resp'.code = 403
          /\ DOMAIN resp' = {"op", "code"}
          /\ carts' = carts
          /\ pendingSaves' = pendingSaves]_vars

\* a price fix was refused while a cart holds an item it would have priced
C19_Witness ==
    /\ resp.op = "fixCartPrices"
    /\ resp.code = 403
    /\ \E c \in DOMAIN carts : FixedPositions(carts[c]) # {}

\* C20: when createOrder answers 201, the caller's cart has no items left and
\* the stored order holds one item per former cart item, in the same order,
\* with the same product, sku and quantity.
C20_CartBecomesOrder ==
    [][\A caller \in Callers :
          (AnyCheckout(caller) /\ resp'.code = 201) =>
              \A c \in CartsOf(caller) :
                  /\ carts'[c].items = <<>>
                  /\ resp'.id \in DOMAIN orders' \ DOMAIN orders
                  /\ Len(orders'[resp'.id].items) = Len(carts[c].items)
                  /\ \A k \in 1..Len(carts[c].items) :
                        /\ orders'[resp'.id].items[k].product = carts[c].items[k].product
                        /\ orders'[resp'.id].items[k].sku = carts[c].items[k].sku
                        /\ orders'[resp'.id].items[k].quantity = carts[c].items[k].quantity]_vars

\* an order of two items of different skus, two units of the second, was
\* created and the cart is empty
C20_Witness ==
    /\ resp.op = "createOrder"
    /\ resp.code = 201
    /\ carts["c1"].items = <<>>
    /\ resp.id \in DOMAIN orders
    /\ Len(orders[resp.id].items) = 2
    /\ orders[resp.id].items[1].sku # orders[resp.id].items[2].sku
    /\ orders[resp.id].items[2].quantity = 2


----------------------------------------------------------------------------
(* Claims about a checkout whose cart clear fails, checked under SpecCheckout *)

\* a createOrder request of the caller with a complete address whose
\* cart.clearCart() rejects
CheckoutClearFails(caller) == CreateOrder(caller, TRUE, "none", FALSE)

\* the caller has a cart with items, each with a sku that matches an option
AllMatched(caller) ==
    \E c \in CartsOf(caller) :
        /\ Len(carts[c].items) > 0
        /\ \A k \in 1..Len(carts[c].items) : ~Unmatched(carts[c].items[k])

\* C21: when createOrder has stored the order and the cart clear that follows
\* fails, the request answers with an error, the order stays in the store and
\* every cart keeps its items: the two writes are not undone together.
C21_NoRollback ==
    [][\A caller \in Callers :
          (AllMatched(caller) /\ CheckoutClearFails(caller)) =>
              /\ resp'.code >= 400
              /\ resp'.id \in DOMAIN orders' \ DOMAIN orders
              /\ orders'[resp'.id].user = caller
              /\ \A o \in DOMAIN orders : orders'[o] = orders[o]
              /\ carts' = carts]_vars

\* a checkout answered 500, its order of two items is stored and the caller's
\* cart still holds its two items
C21_Witness ==
    /\ resp.op = "createOrder"
    /\ resp.code = 500
    /\ resp.id \in DOMAIN orders
    /\ Len(orders[resp.id].items) = 2
    /\ Len(carts["c1"].items) = 2


----------------------------------------------------------------------------
(* Claims about two requests writing one cart, checked under SpecStore *)

\* the positions whose price a write-back assigned
Assigned(s) ==
    {k \in 1..Len(s.doc.items) : s.doc.items[k].price # s.read.items[k].price}

----------------------------------------------------------------------------
(* Claims about the write-back's effect, checked under SpecCart *)

\* the items of a cart that raise needsUpdate in getAllCartsData
Flagged(cart) ==
    {k \in 1..Len(cart.items) :
        SetsNeedsUpdate(cart.items[k],
                        FindOption(Populate(cart.items[k].product, DataFields),
                                   cart.items[k].sku))}

\* C23: when the write-back of a flagged cart resolves on the cart as it was
\* read, every item that was flagged (stored price 0 or absent, price of the
\* option positive) is stored at its reconciled price, and the cart raises
\* needsUpdate no more.
C23_WriteBackSettles ==
    [][\A s \in pendingSaves :
          (SaveSucceeds(s) /\ s.cart \in DOMAIN carts /\ carts[s.cart] = s.read) =>
              /\ \A k \in Flagged(s.read) :
                    carts'[s.cart].items[k].price =
                        EnrichItem(s.read.items[k], DataFields).price
              /\ Flagged(carts'[s.cart]) = {}]_vars


----------------------------------------------------------------------------
(* Claims about the write-back's frame, checked under SpecStore *)

\* C24: a write-back that resolves changes nothing in the stored cart but
\* the price of items stored at 0: the items stay the same in number and
\* order, and every other item keeps its price, quantity and sku, also when
\* the cart was written by another request after the enumeration read it.
C24_WriteBackFrame ==
    [][\A s \in pendingSaves :
          (SaveSucceeds(s) /\ s.cart \in DOMAIN carts) =>
              /\ Len(carts'[s.cart].items) = Len(carts[s.cart].items)
              /\ \A k \in 1..Len(carts[s.cart].items) :
                    \/ carts'[s.cart].items[k] = carts[s.cart].items[k]
                    \/ /\ carts[s.cart].items[k].price = 0
                       /\ carts'[s.cart].items[k] =
                             [carts[s.cart].items[k] EXCEPT
                                 !.price = carts'[s.cart].items[k].price]]_vars


----------------------------------------------------------------------------
(* Claims about the two enumerations, checked under SpecCart *)

\* C25: on the same store getAllCarts answers with the carts, the item prices
\* and totals and the summary that getAllCartsData computes, and starts the
\* write-backs getAllCartsData starts.
C25_ListingEqualsData ==
    [][GetAllCarts("admin") =>
          /\ resp'.carts = AllCartsData(FindCarts).carts
          /\ resp'.summary = AllCartsData(FindCarts).summary
          /\ pendingSaves' = pendingSaves \cup WriteBacks(FindCarts, DataFields)]_vars


----------------------------------------------------------------------------
(* Claims about the prices of an order, checked under SpecCheckout *)

\* C26: every item of an order createOrder stores is priced at the
\* priceAfterDiscount of the option its sku resolves to when that is truthy
\* and at the option's price otherwise, whatever price the cart item stored,
\* and the order's totalOrderPrice is the sum of price x quantity of its items.
C26_OrderPricedFromOption ==
    [][\A caller \in Callers :
          (AnyCheckout(caller) /\ resp'.id \in DOMAIN orders' \ DOMAIN orders) =>
              \A c \in CartsOf(caller) :
                  /\ Len(orders'[resp'.id].items) = Len(carts[c].items)
                  /\ \A k \in 1..Len(carts[c].items) :
                        \A opt \in OptionsWithSku(carts[c].items[k].product,
                                                  carts[c].items[k].sku) :
                            orders'[resp'.id].items[k].price =
                                IF Truthy(opt.priceAfterDiscount)
                                THEN opt.priceAfterDiscount
                                ELSE opt.price
                  /\ orders'[resp'.id].totalOrderPrice =
                        SumSeq([k \in 1..Len(orders'[resp'.id].items) |->
                                   orders'[resp'.id].items[k].price
                                      * orders'[resp'.id].items[k].quantity])]_vars

\* an order holds A1 at the discounted price 50 and Z0 at its option's price
\* 0, from a cart (kept, as its clear failed) that stores both at 30
C26_Witness ==
    /\ resp.op = "createOrder"
    /\ resp.id \in DOMAIN orders
    /\ Len(carts["c1"].items) = 2
    /\ carts["c1"].items[1].sku = "A1" /\ carts["c1"].items[1].price = 30
    /\ carts["c1"].items[2].sku = "Z0" /\ carts["c1"].items[2].price = 30
    /\ orders[resp.id].items[1].price = 50
    /\ orders[resp.id].items[2].price = 0
    /\ orders[resp.id].totalOrderPrice =
          50 * carts["c1"].items[1].quantity


----------------------------------------------------------------------------
(* Claims about fixCartPrices, checked under SpecCart *)

\* the options an item's sku resolves to that carry a positive price
PricedOptions(item) ==
    {opt \in OptionsWithSku(item.product, item.sku) :
        Positive(opt.priceAfterDiscount) \/ Positive(opt.price)}

\* an item fixCartPrices is to price: stored price 0 or absent, and its sku
\* resolves to an option with a positive price
ToBePriced(item) == item.price \in {0, Undefined} /\ PricedOptions(item) # {}

\* the positions <<cart id, item>> of such items in the store
AllToBePriced ==
    {ck \in (DOMAIN carts) \X (1..MaxItems + 1) :
        /\ ck[2] <= Len(carts[ck[1]].items)
        /\ ToBePriced(carts[ck[1]].items[ck[2]])}

\* C27: a fixCartPrices run whose saves all succeed sets the price of exactly
\* the items with a stored price of 0 or none whose sku resolves to an option
\* with a positive price (to priceAfterDiscount when positive, else price),
\* leaves every other item and every cart without such an item as it is and
\* unsaved, and reports updatedItems as the number of those items and
\* updatedCarts as the number of carts holding one.
C27_FixesExactlyUnpriced ==
    [][FixCartPrices("admin", 0) =>
          /\ resp'.code = 200
          /\ DOMAIN carts' = DOMAIN carts
          /\ \A c \in DOMAIN carts :
                /\ Len(carts'[c].items) = Len(carts[c].items)
                /\ \A k \in 1..Len(carts[c].items) :
                      IF ToBePriced(carts[c].items[k])
                      THEN \A opt \in PricedOptions(carts[c].items[k]) :
                              carts'[c].items[k] =
                                  [carts[c].items[k] EXCEPT
                                      !.price = IF Positive(opt.priceAfterDiscount)
                                                THEN opt.priceAfterDiscount
                                                ELSE opt.price]
                      ELSE carts'[c].items[k] = carts[c].items[k]
                /\ carts'[c].discount = carts[c].discount
          /\ {resp'.saved[d].id : d \in 1..Len(resp'.saved)} =
                {ck[1] : ck \in AllToBePriced}
          /\ resp'.updatedItems = Cardinality(AllToBePriced)
          /\ resp'.updatedCarts = Cardinality({ck[1] : ck \in AllToBePriced})]_vars

\* a run priced both items of one cart, one stored without a price and one
\* stored at 0, and reported 2 items in 1 cart
C27_Witness ==
    /\ resp.op = "fixCartPrices"
    /\ resp.code = 200
    /\ resp.updatedItems = 2
    /\ resp.updatedCarts = 1
    /\ \E k \in 1..Len(resp.read) :
          /\ Len(resp.read[k].items) = 2
          /\ resp.read[k].items[1].price = Undefined
          /\ resp.read[k].items[2].price = 0
          /\ carts[resp.read[k].id].items[1].price > 0
          /\ carts[resp.read[k].id].items[2].price > 0


\* the last request was a fixCartPrices run whose saves all succeeded, and
\* the carts are as that run left them
JustFixed ==
    /\ resp.op = "fixCartPrices"
    /\ resp.code = 200
    /\ DOMAIN carts = {resp.read[k].id : k \in 1..Len(resp.read)}
    /\ \A k \in 1..Len(resp.read) :
          carts[resp.read[k].id] = [resp.read[k] EXCEPT !.items = FixedItems(resp.read[k])]

\* C28: a fixCartPrices run on the carts as a complete earlier run left them
\* changes no cart, saves none and reports updatedItems 0 and updatedCarts 0.
C28_FixIdempotent ==
    [][(JustFixed /\ FixCartPrices("admin", 0)) =>
          /\ carts' = carts
          /\ resp'.code = 200
          /\ resp'.saved = <<>>
          /\ resp'.updatedItems = 0
          /\ resp'.updatedCarts = 0]_vars

\* a run reported 0 items on a cart whose item an earlier run had priced at
\* 50: a write-back that read the item at price 0 is still pending
C28_Witness ==
    /\ resp.op = "fixCartPrices"
    /\ resp.code = 200
    /\ resp.updatedItems = 0
    /\ resp.updatedCarts = 0
    /\ \E s \in pendingSaves :
          /\ s.read.items[1].price = 0
          /\ carts[s.cart].items[1].price = 50


----------------------------------------------------------------------------
(* Claims about the refusals of cancelOrder, checked under SpecOrder *)

\* C29: cancelOrder answers 404 for an order that does not exist; 403 for a
\* caller who is not the order's owner, an admin included, whatever the
\* order's status; 400 for the owner of an order that is not pending; and in
\* these three cases it leaves the orders as they are.
C29_CancelRefusals ==
    [][\A id \in RequestIds, caller \in Callers :
          CancelOrder(id, caller) =>
              /\ (id \notin DOMAIN orders) => (resp'.code = 404 /\ orders' = orders)
              /\ (id \in DOMAIN orders /\ orders[id].user # caller) =>
                    (resp'.code = 403 /\ orders' = orders)
              /\ (id \in DOMAIN orders /\ orders[id].user = caller
                                       /\ orders[id].status # "pending") =>
                    (resp'.code = 400 /\ orders' = orders)
              /\ resp'.code \in {400, 403, 404} => orders' = orders]_vars

\* a cancelOrder by a caller who is not the owner was answered 403 for an
\* order that is already shipped
C29_Witness ==
    /\ resp.op = "cancelOrder"
    /\ resp.code = 403
    /\ resp.id \in DOMAIN orders
    /\ orders[resp.id].status = "shipped"


----------------------------------------------------------------------------
(* The orders page: the status control of every order's row *)

\* the select of an order's row is disabled: updatingOrderId === order._id ||
\* !adminUser || adminUser.role !== "admin"
StatusControlDisabled(adminUser, orderId) ==
    updatingOrderId = orderId \/ RoleOf[adminUser] # "admin"

\* the select's onChange and handleStatusChange(orderId, newStatus):
\* setUpdatingOrderId(orderId), then updateOrderStatusMutation.mutate
HandleStatusChange(adminUser, orderId, newStatus) ==
    /\ orderId \in DOMAIN orders
    /\ ~StatusControlDisabled(adminUser, orderId)
    /\ newStatus \in validStatuses
    /\ updatingOrderId' = orderId
    /\ statusUpdates' = statusUpdates \cup {[orderId |-> orderId, status |-> newStatus]}
    /\ UNCHANGED <<storeVars, resp, cartData, editingCart, view>>

\* a mutation settles: its PUT was answered by updateOrderStatus (delivered)
\* or got no answer, and onSettled runs setUpdatingOrderId(null)
StatusUpdateSettles(m, delivered, answer) ==
    /\ m \in statusUpdates
    /\ IF delivered
       THEN UpdateOrderStatusHandler(m.orderId, m.status, answer)
       ELSE answer = 0 /\ UNCHANGED <<orders, resp>>
    /\ statusUpdates' = statusUpdates \ {m}
    /\ updatingOrderId' = NoOrderId
    /\ UNCHANGED <<products, carts, pendingSaves, cartData, editingCart, view>>

----------------------------------------------------------------------------
(* Specification SpecOrdersPage: an admin on the orders page with two orders *)

\* the statuses the admin picks in the selects
PageStatuses == {"processing", "shipped"}

\* the two orders of the table, as createOrder stored them
PlacedOrders ==
    [id \in OrderIds |->
        NewOrder(id, [user  |-> "u1",
                      items |-> << [product |-> "p1", sku |-> "A1",
                                    quantity |-> 1, price |-> 50] >>,
                      notes |-> "none",
                      totalOrderPrice |-> 50])]

OrdersPageInit ==
    /\ products = Catalog
    /\ carts = OrderCarts
    /\ orders = PlacedOrders
    /\ pendingSaves = {}
    /\ resp = NoResp
    /\ cartData = NoPage
    /\ editingCart = NoEditing
    /\ view = NoView
    /\ updatingOrderId = NoOrderId
    /\ statusUpdates = {}

OrdersPageNext ==
    \/ \E adminUser \in Callers, orderId \in OrderIds, newStatus \in PageStatuses :
          HandleStatusChange(adminUser, orderId, newStatus)
    \/ \E m \in statusUpdates, delivered \in BOOLEAN, answer \in {0} :
          StatusUpdateSettles(m, delivered, answer)

SpecOrdersPage == OrdersPageInit /\ [][OrdersPageNext]_vars

\* C30: while a status update of an order is in flight, updatingOrderId is
\* that order's id, so that its status control stays disabled, also when an
\* update of another order starts or settles meanwhile; and when no update is
\* in flight updatingOrderId is null.
C30_DisabledWhileInFlight ==
    /\ \A m \in statusUpdates : updatingOrderId = m.orderId
    /\ statusUpdates = {} => updatingOrderId = NoOrderId

====
